---- MODULE Spec2Model ----
(***************************************************************************)
(* A model of the PacksList client-side managers.                          *)
(*                                                                         *)
(* ConfigManager (src/config-manager.js): the configs and cache mappings,  *)
(* the session identifier, the registered callbacks and every asynchronous *)
(* operation in flight.  An async method is cut at its awaits: one action  *)
(* runs the synchronous part up to the first await, one action per await   *)
(* runs the continuation with the outcome the remote store delivered.      *)
(* The remote document store is an external service shared with other      *)
(* clients, so a read may deliver any document, a missing document or an   *)
(* error, and a write may succeed or fail.                                 *)
(***************************************************************************)
EXTENDS Integers, Sequences, FiniteSets, Bags, TLC

(***************************************************************************)
(* Bounds of the model.                                                    *)
(***************************************************************************)
MaxPending == 2      \* directly started operations in flight at a time
MaxCallbacks == 1    \* registered callbacks
MaxIds == 2          \* distinct outcomes of the random id generator
MaxListeners == 2    \* registered city-change or auth listeners
MaxHandlers == 2     \* auth-state handlers waiting at an await at a time

(***************************************************************************)
(* Values.  A config value is a mapping from field names to field values; *)
(* strings that get concatenated are sequences of tokens.                  *)
(***************************************************************************)
EmptyMap == [k \in {} |-> ""]

\* { ...a, ...b }
Spread(a, b) ==
  [k \in DOMAIN a \cup DOMAIN b |-> IF k \in DOMAIN b THEN b[k] ELSE a[k]]

cacheTimeout == 5 * 60 * 1000

HalfTimeout == cacheTimeout \div 2

\* The outcomes of Math.random().toString(36) + Date.now().toString(36):
\* a token without underscore.
PublicIds == 1..MaxIds

SessionIds == {<<"sess", "_", "p">>, <<"sess", "_", "q">>}

\* The six types loadAllConfigs loads.
configTypes ==
  <<"cities", "product-types", "vendor-categories", "metro-areas",
    "ui-strings", "region-settings">>

ConfigTypeSet == {configTypes[i] : i \in DOMAIN configTypes}

\* The types the page asks for directly: one with a built-in default that
\* carries generated ids, one without built-in default.
OpTypes == {"cities", "auth-settings"}

\* Type names that contain the key separator, to probe the cache key.
ProbeTypes == {"cities_sess_p", "cities_sess"}

AllTypes == ConfigTypeSet \cup OpTypes \cup {"critical", ""}

\* A type name as the tokens of its string.
Tokens(type) ==
  CASE type = "cities_sess_p" -> <<"cities", "_", "sess", "_", "p">>
    [] type = "cities_sess" -> <<"cities", "_", "sess">>
    [] OTHER -> <<type>>

\* A key that leaves the session out.
CacheKeyShared(type, sid) == <<"config", "_">> \o Tokens(type)

\* `config_${type}_${this.sessionId}`
CacheKey(type, sid) == <<"config", "_">> \o Tokens(type) \o <<"_">> \o sid

generatePublicId(type, r) ==
  LET prefix == CASE type = "pack" -> "pack_"
                  [] type = "city" -> "city_"
                  [] type = "user" -> "user_"
                  [] type = "vendor" -> "vend_"
                  [] type = "region" -> "reg_"
                  [] OTHER -> "item_"
  IN <<prefix, r>>

\* One item of a built-in default; of its fields the model keeps id, key and
\* isActive.
DefaultItem(kind, r, key) ==
  [id |-> generatePublicId(kind, r), key |-> key, isActive |-> TRUE]

\* The defaults table of getDefaultConfig, built with the random draw r.
DefaultsTable(r) ==
  [t \in ConfigTypeSet |->
    CASE t = "cities" ->
           [items |-> <<DefaultItem("city", r, "boston"),
                        DefaultItem("city", r, "providence"),
                        DefaultItem("city", r, "cambridge")>>]
      [] t = "product-types" ->
           [items |-> <<DefaultItem("pack", r, "indica-pack"),
                        DefaultItem("pack", r, "sativa-pack"),
                        DefaultItem("pack", r, "hybrid-pack")>>]
      [] t = "vendor-categories" ->
           [items |-> <<DefaultItem("vendor", r, "high-tolerance"),
                        DefaultItem("vendor", r, "bozo-headstash"),
                        DefaultItem("vendor", r, "deep-fried"),
                        DefaultItem("vendor", r, "gumbo"),
                        DefaultItem("vendor", r, "other")>>]
      [] t = "metro-areas" ->
           [items |-> <<DefaultItem("region", r, "greater-boston"),
                        DefaultItem("region", r, "providence-metro")>>]
      [] t = "ui-strings" ->
           [searchPlaceholders |-> "Search packs in {cityName}...",
            locationMessages |-> "Detecting your location in {regionName}...",
            personalizedPlaceholders |-> "Welcome back! Search your favorites...",
            errorMessages |-> "Enable location for better results"]
      [] OTHER ->
           [defaultRegion |-> "northeast",
            maxSearchRadius |-> "50",
            cacheTimeout |-> "300000"]]

\* return defaults[type] || {}
getDefaultConfig(type, r) ==
  IF type \in DOMAIN DefaultsTable(r) THEN DefaultsTable(r)[type] ELSE EmptyMap

\* The document a read of the remote store may deliver.
RemoteDocs ==
  {[items |-> <<[id |-> <<"item_", 0>>, key |-> "remote", isActive |-> TRUE]>>]}

\* The callbacks a page registers.
Callbacks == {"cb"}

\* The data an admin passes to updateConfig.
UpdateData == {[title |-> "C"]}

(***************************************************************************)
(* State.                                                                  *)
(***************************************************************************)
VARIABLES
  configs,        \* this.configs: type -> config value, on the types set
  cache,          \* this.cache: the entries [key, data, age] of the Map
  sessionId,      \* this.sessionId
  isInitialized,  \* this.isInitialized
  callbacks,      \* this.callbacks
  pending,        \* the bag of operations waiting at an await
  ret,            \* what the last step returned or settled
  delivered,      \* the callback invocations of the last step
  race,           \* history: the running batch of concurrent operations
  currentCity,    \* LocationManager: this.currentCity
  localStorage,   \* window.localStorage: item name -> stored string
  listeners,      \* LocationManager: this.listeners
  locRet,         \* what the last call of a LocationManager method returned
  notified,       \* the listener invocations of the last step
  persisted,      \* history: a setCurrentCity of this manager has succeeded
  user,           \* AuthManager: this.user
  userProfile,    \* AuthManager: this.userProfile
  isAdmin,        \* AuthManager: this.isAdmin
  authListeners,  \* AuthManager: this.authListeners
  authPending,    \* the bag of auth-state handlers waiting at an await
  authNotified,   \* the calls of auth listeners made by the last step
  lastEvent,      \* history: the last call of notifyAuthListeners
  backend         \* what the auth backend reported last

\* The fields of ConfigManager and what follows them.
cfgVars ==
  <<configs, cache, sessionId, isInitialized, callbacks, pending, ret,
    delivered, race>>

\* The fields of LocationManager, the browser storage and what follows them.
locVars == <<currentCity, localStorage, listeners, locRet, notified, persisted>>

\* The fields of AuthManager, the auth backend and what follows them.
authVars ==
  <<user, userProfile, isAdmin, authListeners, authPending, authNotified,
    lastEvent, backend>>

vars == <<cfgVars, locVars, authVars>>

\* What the actions of ConfigManager leave alone.
aux == <<race, locVars, authVars>>

NoRet ==
  [op |-> "none", type |-> "", how |-> "", settled |-> "", value |-> EmptyMap]

Ret(op, type, how, settled, value) ==
  [op |-> op, type |-> type, how |-> how, settled |-> settled, value |-> value]

\* An operation waiting at the await pc; parent is "loadAll" for a load that
\* loadAllConfigs started.
Op(op, type, pc, data, parent) ==
  [op |-> op, type |-> type, pc |-> pc, data |-> data, parent |-> parent]

(***************************************************************************)
(* The Map operations of configs and cache.                                *)
(***************************************************************************)
\* this.configs.set(type, value)
ConfigsSet(cfg, type, value) ==
  [t \in DOMAIN cfg \cup {type} |-> IF t = type THEN value ELSE cfg[t]]

\* A lookup that never finds the stored value.
GetConfigMissing(cfg, type) == EmptyMap

\* this.configs.get(type) || {}
GetConfigIn(cfg, type) == IF type \in DOMAIN cfg THEN cfg[type] ELSE EmptyMap

getConfig(type) == GetConfigIn(configs, type)

\* What getConfigItem may return: null, undefined, or an item.
Null == [kind |-> "null"]

Undefined == [kind |-> "undefined"]

Found(item) == [kind |-> "item", item |-> item]

\* items.find(item => item.key === key): the first item with the key, and
\* undefined when there is none.
Find(items, key) ==
  LET found == {i \in 1..Len(items) : items[i].key = key}
  IN IF found = {}
       THEN Undefined
       ELSE Found(items[CHOOSE i \in found : \A j \in found : i <= j])

\* getConfigItem(type, key) on the configs cfg
GetConfigItemIn(cfg, type, key) ==
  LET config == GetConfigIn(cfg, type)
  IN IF "items" \in DOMAIN config THEN Find(config.items, key) ELSE Null

getConfigItem(type, key) == GetConfigItemIn(configs, type, key)

\* The keys a caller passes to getConfigItem.
ItemKeys == {"boston", "remote", "nokey"}

\* this.cache.get(cacheKey): the entries under the key
CacheGet(c, key) == {e \in c : e.key = key}

\* An entry stamped with the time the read was issued, a clock step before
\* the load completed.
CacheSetAtIssue(c, key, data) ==
  {e \in c : e.key # key}
    \cup {[key |-> key, data |-> data, age |-> cacheTimeout \div 2]}

\* this.cache.set(cacheKey, {data: data, timestamp: Date.now()})
CacheSet(c, key, data) ==
  {e \in c : e.key # key} \cup {[key |-> key, data |-> data, age |-> 0]}

\* this.cache.delete(cacheKey)
CacheDelete(c, key) == {e \in c : e.key # key}

\* An entry of exactly cacheTimeout still served.
IsFreshInclusive(e) == e.age <= cacheTimeout

\* Date.now() - cached.timestamp < this.cacheTimeout
IsFresh(e) == e.age < cacheTimeout

\* cached && Date.now() - cached.timestamp < this.cacheTimeout
CacheHit(c, key) == {e \in CacheGet(c, key) : IsFresh(e)}

\* notifyCallbacks(event, data): every registered callback is called once, in
\* order; what a callback throws is caught.
notifyCallbacks(event, type, data) ==
  [i \in 1..Len(callbacks) |->
    [callback |-> callbacks[i], event |-> event, type |-> type, data |-> data]]

(***************************************************************************)
(* constructor                                                             *)
(***************************************************************************)
NoRace ==
  [base |-> [configs |-> EmptyMap, cache |-> {}], hist |-> <<>>,
   closed |-> FALSE]

\* The state after construction, generateSessionId() having returned sid.
Construct(sid) ==
  /\ configs = EmptyMap
  /\ cache = {}
  /\ sessionId = sid
  /\ isInitialized = FALSE
  /\ callbacks = <<>>
  /\ pending = EmptyBag
  /\ ret = NoRet
  /\ delivered = <<>>
  /\ race = NoRace

(***************************************************************************)
(* LocationManager                                                         *)
(***************************************************************************)
\* this.cities; of the fields of a city the model keeps name, state and key.
cities ==
  <<[name |-> "Boston", state |-> "MA", key |-> "boston"],
    [name |-> "Springfield", state |-> "MA", key |-> "springfield"],
    [name |-> "Worcester", state |-> "MA", key |-> "worcester"],
    [name |-> "South Coast", state |-> "MA", key |-> "south-coast"],
    [name |-> "North Shore", state |-> "MA", key |-> "north-shore"],
    [name |-> "Providence", state |-> "RI", key |-> "providence"],
    [name |-> "Newport", state |-> "RI", key |-> "newport"],
    [name |-> "Woonsocket", state |-> "RI", key |-> "woonsocket"],
    [name |-> "Hartford", state |-> "CT", key |-> "hartford"],
    [name |-> "New Haven", state |-> "CT", key |-> "new-haven"],
    [name |-> "Bridgeport", state |-> "CT", key |-> "bridgeport"],
    [name |-> "Stamford", state |-> "CT", key |-> "stamford"]>>

\* The name of the item that holds the selected city.
StorageKey == "packslist-selected-city"

\* The keys a caller passes to setCurrentCity: keys of the list and others.
CityKeyArgs == {"boston", "providence", "new-haven", "atlantis", ""}

\* What the browser storage may hold when a page is loaded.
SavedStores ==
  {EmptyMap} \cup {[n \in {StorageKey} |-> v] : v \in {"providence", "atlantis", ""}}

\* The listeners a page registers: one that returns, one that throws, one
\* that removes itself when it is called, and one that removes the first.
Listeners == {"plain", "throws", "once", "ousts"}

\* The callback that listener l passes to removeCityChangeListener from within
\* its call, "" when it removes none.
RemovedBy(l) ==
  CASE l = "once" -> "once"
    [] l = "ousts" -> "plain"
    [] OTHER -> ""

\* A lookup that falls back to the first city of the list.
GetCityOrFirst(key) ==
  LET found == {i \in 1..Len(cities) : cities[i].key = key}
  IN IF found = {}
       THEN cities[1]
       ELSE cities[CHOOSE i \in found : \A j \in found : i <= j]

\* getCityByKey(key): this.cities.find(city => city.key === key)
getCityByKey(key) ==
  LET found == {i \in 1..Len(cities) : cities[i].key = key}
  IN IF found = {}
       THEN Undefined
       ELSE cities[CHOOSE i \in found : \A j \in found : i <= j]

\* localStorage.setItem(name, value)
SetItem(store, name, value) ==
  [n \in DOMAIN store \cup {name} |-> IF n = name THEN value ELSE store[n]]

\* An init() without the default: the current city stays null when the
\* storage names no city of the list.
LocationInitNoDefault(store) ==
  LET saved == IF StorageKey \in DOMAIN store /\ store[StorageKey] # ""
                 THEN getCityByKey(store[StorageKey])
                 ELSE Undefined
  IN IF saved # Undefined THEN saved ELSE Null

\* init(): the current city of a manager constructed over the storage store.
LocationInit(store) ==
  LET saved == IF StorageKey \in DOMAIN store /\ store[StorageKey] # ""
                 THEN getCityByKey(store[StorageKey])
                 ELSE Undefined
  IN IF saved # Undefined THEN saved ELSE getCityByKey("boston")

NoLocRet == [op |-> "none", key |-> "", result |-> "none"]

\* new LocationManager() in a browser whose storage is store.
LocationConstruct(store) ==
  /\ localStorage = store
  /\ currentCity = LocationInit(store)
  /\ listeners = <<>>
  /\ locRet = NoLocRet
  /\ notified = <<>>
  /\ persisted = FALSE

\* removeCityChangeListener(callback) on the array ls: indexOf finds the
\* first registration, splice takes it out.
RemoveListener(ls, callback) ==
  LET found == {i \in 1..Len(ls) : ls[i] = callback}
  IN IF found = {}
       THEN ls
       ELSE LET index == CHOOSE i \in found : \A j \in found : i <= j
            IN SubSeq(ls, 1, index - 1) \o SubSeq(ls, index + 1, Len(ls))

\* this.listeners.forEach(callback => ...) from index k on: the length is
\* read once before the first call, every index below it that the array still
\* has is visited in turn, and a call may take a listener out of the array,
\* which moves the later ones down.  What a listener throws is caught.  A
\* call records the city it got and the stored value it could read.
RECURSIVE ForEach(_, _, _, _, _, _)
ForEach(ls, k, len, city, store, calls) ==
  IF k > len
    THEN [listeners |-> ls, calls |-> calls]
    ELSE IF k > Len(ls)
           THEN ForEach(ls, k + 1, len, city, store, calls)
           ELSE ForEach(RemoveListener(ls, RemovedBy(ls[k])), k + 1, len, city,
                        store,
                        Append(calls,
                               [listener |-> ls[k], city |-> city,
                                stored |-> IF StorageKey \in DOMAIN store
                                             THEN store[StorageKey] ELSE ""]))

\* notifyListeners(city) on the array ls with the browser storage store
notifyListeners(ls, city, store) == ForEach(ls, 1, Len(ls), city, store, <<>>)

\* setCurrentCity(cityKey); stored tells whether localStorage.setItem returned
\* or threw (storage full or disabled), in which case the call throws too.
setCurrentCity(cityKey, stored) ==
  LET city == getCityByKey(cityKey)
  IN /\ IF city = Undefined
          THEN /\ locRet' = [op |-> "setCurrentCity", key |-> cityKey,
                             result |-> "false"]
               /\ notified' = <<>>
               /\ UNCHANGED <<currentCity, localStorage, persisted, listeners>>
          ELSE /\ currentCity' = city
               /\ IF stored
                    THEN /\ localStorage' = SetItem(localStorage, StorageKey, cityKey)
                         /\ LET done == notifyListeners(listeners, city,
                                                        localStorage')
                            IN /\ notified' = done.calls
                               /\ listeners' = done.listeners
                         /\ persisted' = TRUE
                         /\ locRet' = [op |-> "setCurrentCity", key |-> cityKey,
                                       result |-> "true"]
                    ELSE /\ notified' = <<>>
                         /\ locRet' = [op |-> "setCurrentCity", key |-> cityKey,
                                       result |-> "threw"]
                         /\ UNCHANGED <<localStorage, persisted, listeners>>

\* onCityChange(callback)
onCityChange(callback) ==
  /\ Len(listeners) < MaxListeners
  /\ listeners' = Append(listeners, callback)
  /\ locRet' = [op |-> "onCityChange", key |-> callback, result |-> "none"]
  /\ notified' = <<>>
  /\ UNCHANGED <<currentCity, localStorage, persisted>>

\* removeCityChangeListener(callback)
removeCityChangeListener(callback) ==
  /\ listeners' = RemoveListener(listeners, callback)
  /\ locRet' = [op |-> "removeCityChangeListener", key |-> callback,
                result |-> "none"]
  /\ notified' = <<>>
  /\ UNCHANGED <<currentCity, localStorage, persisted>>

\* The page is loaded again: the script constructs a new LocationManager over
\* the storage the last page left.
LocationReload ==
  /\ currentCity' = LocationInit(localStorage)
  /\ listeners' = <<>>
  /\ locRet' = NoLocRet
  /\ notified' = <<>>
  /\ persisted' = FALSE
  /\ UNCHANGED localStorage

\* Sessions differ in the name of their id only; the specifications follow
\* one of them.  The specifications of ConfigManager start with an empty
\* browser storage.
\* ---------------------------------------------------------------------
\* AuthManager
\* ---------------------------------------------------------------------

\* The users the auth backend reports: a plain user and a user whose email
\* is in the list of admin emails.
Users ==
  { [uid |-> "u1", email |-> "pat@example.com"],
    [uid |-> "u2", email |-> "admin@packslist.com"] }

\* The functions registered as auth listeners.
AuthCallbacks == {"ui"}

\* The role createUserProfile and loadUserProfile give to an email.
RoleOf(email) ==
  IF email = "sxpxru@gmail.com" THEN "super_admin"
  ELSE IF email = "admin@packslist.com" THEN "admin"
  ELSE "user"

\* The documents users/<uid> can hold: a complete profile with either role
\* and a profile of an older version, without createdAt, lastLogin, email
\* and role. stamped: createdAt and lastLogin are both there; "" stands for
\* a field that is missing.
ProfileDocs(uid) ==
  { [uid |-> uid, email |-> "known", role |-> "user", stamped |-> TRUE],
    [uid |-> uid, email |-> "known", role |-> "admin", stamped |-> TRUE],
    [uid |-> uid, email |-> "", role |-> "", stamped |-> FALSE] }

NoData == [kind |-> "none"]

\* needsUpdate = !this.userProfile.createdAt || !this.userProfile.lastLogin
NeedsUpdate(profile) == ~profile.stamped

\* updateData of loadUserProfile for the profile read and this.user.
UpdateDataFor(profile, u) ==
  [email |-> IF profile.email = "" THEN u.email ELSE "",
   role |-> IF profile.role = "" THEN RoleOf(u.email) ELSE "",
   stamped |-> TRUE]

\* { ...profile, ...updateData }: the spread of null adds no field.
MergeProfile(profile, data) ==
  [uid |-> IF profile = Null THEN "" ELSE profile.uid,
   email |-> IF data.email # "" THEN data.email
             ELSE IF profile = Null THEN "" ELSE profile.email,
   role |-> IF data.role # "" THEN data.role
            ELSE IF profile = Null THEN "" ELSE profile.role,
   stamped |-> data.stamped]

\* The profile createUserProfile builds for this.user.
NewProfile(u) ==
  [uid |-> u.uid, email |-> u.email, role |-> RoleOf(u.email),
   stamped |-> TRUE]

\* adminConfig?.adminEmails || ['admin@packslist.com', 'sxpxru@gmail.com']
adminEmails ==
  LET adminConfig == getConfig("auth-settings")
  IN IF "adminEmails" \in DOMAIN adminConfig
       THEN adminConfig.adminEmails
       ELSE {"admin@packslist.com", "sxpxru@gmail.com"}

\* checkAdminStatus(): the value it gives this.isAdmin.
checkAdminStatus(u, profile) ==
  IF u = Null \/ profile = Null
    THEN FALSE
    ELSE \/ u.email \in adminEmails
         \/ profile.role \in {"admin", "super_admin"}

\* notifyAuthListeners(event, data): the calls made, in the order made.
notifyAuthListeners(event, data) ==
  [i \in 1..Len(authListeners) |->
     [listener |-> authListeners[i], event |-> event, data |-> data]]

\* The last call of notifyAuthListeners: its event, the user handed over
\* and the number of listeners called.
Event(event, u) ==
  [event |-> event, user |-> u, reached |-> Len(authListeners)]

\* A handler of an auth-state change waiting at an await: for the read of
\* users/<uid> (get), for the update of it (update) or for the write of a
\* new profile (set).
AuthOp(pc, uid, data) == [pc |-> pc, uid |-> uid, data |-> data]

\* The state after new AuthManager(), before the backend has reported.
AuthConstruct ==
  /\ user = Null
  /\ userProfile = Null
  /\ isAdmin = FALSE
  /\ authListeners = <<>>
  /\ authPending = EmptyBag
  /\ authNotified = <<>>
  /\ lastEvent = [event |-> "none", user |-> Null, reached |-> 0]
  /\ backend = Undefined

Init ==
  /\ Construct(<<"sess", "_", "p">>)
  /\ LocationConstruct(EmptyMap)
  /\ AuthConstruct

InitLocation ==
  /\ Construct(<<"sess", "_", "p">>)
  /\ \E store \in SavedStores : LocationConstruct(store)
  /\ AuthConstruct

NextLocation ==
  \/ \E cityKey \in CityKeyArgs, stored \in BOOLEAN :
       setCurrentCity(cityKey, stored) /\ UNCHANGED <<cfgVars, authVars>>
  \/ \E callback \in Listeners : onCityChange(callback) /\ UNCHANGED <<cfgVars, authVars>>
  \/ \E callback \in Listeners :
       removeCityChangeListener(callback) /\ UNCHANGED <<cfgVars, authVars>>
  \/ LocationReload /\ UNCHANGED <<cfgVars, authVars>>

SpecLocation == InitLocation /\ [][NextLocation]_vars

\* handleAuthStateChange(user), as onAuthStateChanged calls it when the
\* backend reports a change, up to the first await: a sign-out is handled
\* at once, a sign-in waits for the read of users/<uid>.
handleAuthStateChange(u) ==
  /\ u # backend
  /\ backend' = u
  /\ user' = u
  /\ IF u = Null
       THEN /\ userProfile' = Null
            /\ isAdmin' = FALSE
            /\ authNotified' = notifyAuthListeners("unauthenticated", Null)
            /\ lastEvent' = Event("unauthenticated", Null)
            /\ UNCHANGED authPending
       ELSE /\ BagCardinality(authPending) < MaxHandlers
            /\ authPending' =
                 authPending (+) SetToBag({AuthOp("get", u.uid, NoData)})
            /\ authNotified' = <<>>
            /\ UNCHANGED <<userProfile, isAdmin, lastEvent>>
  /\ UNCHANGED authListeners

\* The rest of handleAuthStateChange, once loadUserProfile has returned
\* and left profile in this.userProfile: checkAdminStatus() and the
\* 'authenticated' event with this.user and this.userProfile.
HandlerEnd(h, profile) ==
  /\ userProfile' = profile
  /\ isAdmin' = checkAdminStatus(user, profile)
  /\ authNotified' =
       notifyAuthListeners("authenticated",
                           [user |-> user, profile |-> profile])
  /\ lastEvent' = Event("authenticated", user)
  /\ authPending' = authPending (-) SetToBag({h})
  /\ UNCHANGED <<user, authListeners, backend>>

\* A handler goes on from its await to the next one.
HandlerNext(h, next, profile) ==
  /\ userProfile' = profile
  /\ authPending' = (authPending (-) SetToBag({h})) (+) SetToBag({next})
  /\ authNotified' = <<>>
  /\ UNCHANGED <<user, isAdmin, authListeners, lastEvent, backend>>

\* The read of users/<uid> delivers a document: it becomes this.userProfile
\* and the update of users/<this.user.uid> is sent; with this.user null by
\* now, this.user.uid throws and the catch ends loadUserProfile.
ProfileGetExists(h, doc) ==
  /\ h.pc = "get"
  /\ IF user = Null
       THEN HandlerEnd(h, doc)
       ELSE HandlerNext(h,
                        AuthOp("update", user.uid,
                               IF NeedsUpdate(doc)
                                 THEN UpdateDataFor(doc, user)
                                 ELSE NoData),
                        doc)

\* The read finds no document: createUserProfile() writes a new profile of
\* this.user, or returns null when this.user is null by now.
ProfileGetMissing(h) ==
  /\ h.pc = "get"
  /\ IF user = Null
       THEN HandlerEnd(h, Null)
       ELSE HandlerNext(h, AuthOp("set", user.uid, NewProfile(user)),
                        userProfile)

\* The read fails: the catch of loadUserProfile returns null.
ProfileGetError(h) ==
  /\ h.pc = "get"
  /\ HandlerEnd(h, userProfile)

\* The update is done: the fields added are merged into this.userProfile.
ProfileUpdateDone(h) ==
  /\ h.pc = "update"
  /\ HandlerEnd(h, IF h.data = NoData
                     THEN userProfile
                     ELSE MergeProfile(userProfile, h.data))

\* The update fails: the catch of loadUserProfile returns null.
ProfileUpdateFailed(h) ==
  /\ h.pc = "update"
  /\ HandlerEnd(h, userProfile)

\* The write of the new profile settles: createUserProfile returns the
\* profile, or null when the write failed.
ProfileSetDone(h, ok) ==
  /\ h.pc = "set"
  /\ HandlerEnd(h, IF ok THEN h.data ELSE Null)

\* addAuthListener(callback)
addAuthListener(callback) ==
  /\ Len(authListeners) < MaxListeners
  /\ authListeners' = Append(authListeners, callback)
  /\ authNotified' = <<>>
  /\ UNCHANGED <<user, userProfile, isAdmin, authPending, lastEvent, backend>>

\* removeAuthListener(callback)
removeAuthListener(callback) ==
  /\ authListeners' = RemoveListener(authListeners, callback)
  /\ authNotified' = <<>>
  /\ UNCHANGED <<user, userProfile, isAdmin, authPending, lastEvent, backend>>

NextAuth ==
  \/ \E u \in Users \cup {Null} :
       handleAuthStateChange(u) /\ UNCHANGED <<cfgVars, locVars>>
  \/ \E h \in BagToSet(authPending) :
       \E doc \in ProfileDocs(h.uid) :
         ProfileGetExists(h, doc) /\ UNCHANGED <<cfgVars, locVars>>
  \/ \E h \in BagToSet(authPending) :
       ProfileGetMissing(h) /\ UNCHANGED <<cfgVars, locVars>>
  \/ \E h \in BagToSet(authPending) :
       ProfileGetError(h) /\ UNCHANGED <<cfgVars, locVars>>
  \/ \E h \in BagToSet(authPending) :
       ProfileUpdateDone(h) /\ UNCHANGED <<cfgVars, locVars>>
  \/ \E h \in BagToSet(authPending) :
       ProfileUpdateFailed(h) /\ UNCHANGED <<cfgVars, locVars>>
  \/ \E h \in BagToSet(authPending), ok \in BOOLEAN :
       ProfileSetDone(h, ok) /\ UNCHANGED <<cfgVars, locVars>>
  \/ \E callback \in AuthCallbacks :
       addAuthListener(callback) /\ UNCHANGED <<cfgVars, locVars>>
  \/ \E callback \in AuthCallbacks :
       removeAuthListener(callback) /\ UNCHANGED <<cfgVars, locVars>>

SpecAuth == Init /\ [][NextAuth]_vars

(***************************************************************************)
(* loadConfigType(type)                                                    *)
(***************************************************************************)
\* The synchronous part: the cache check.
LoadStartEffect(cfg, c, sid, type) ==
  LET hit == CacheHit(c, CacheKey(type, sid))
  IN IF hit # {}
       THEN LET cached == CHOOSE e \in hit : TRUE
            IN [hit |-> TRUE, configs |-> ConfigsSet(cfg, type, cached.data),
                value |-> cached.data]
       ELSE [hit |-> FALSE, configs |-> cfg, value |-> EmptyMap]

\* A loadConfigType that joins a read of the type already in flight instead
\* of issuing its own.
loadConfigTypeJoins(type) ==
  LET eff == LoadStartEffect(configs, cache, sessionId, type)
      op == Op("load", type, "get", EmptyMap, "")
  IN /\ IF eff.hit
          THEN /\ configs' = eff.configs
               /\ ret' = Ret("load", type, "hit", "resolved", eff.value)
               /\ UNCHANGED pending
          ELSE /\ BagCardinality(pending) < MaxPending
               /\ pending' = IF BagIn(op, pending)
                               THEN pending
                               ELSE pending (+) SetToBag({op})
               /\ ret' = Ret("load", type, "issued", "pending", EmptyMap)
               /\ UNCHANGED configs
     /\ delivered' = <<>>
     /\ UNCHANGED <<cache, sessionId, isInitialized, callbacks>>

\* On a miss the remote read is issued and awaited.
loadConfigType(type) ==
  LET eff == LoadStartEffect(configs, cache, sessionId, type)
  IN /\ IF eff.hit
          THEN /\ configs' = eff.configs
               /\ ret' = Ret("load", type, "hit", "resolved", eff.value)
               /\ UNCHANGED pending
          ELSE /\ BagCardinality(pending) < MaxPending
               /\ pending' =
                    pending (+) SetToBag({Op("load", type, "get", EmptyMap, "")})
               /\ ret' = Ret("load", type, "issued", "pending", EmptyMap)
               /\ UNCHANGED configs
     /\ delivered' = <<>>
     /\ UNCHANGED <<cache, sessionId, isInitialized, callbacks>>

\* The try branch from "Cache the data" on: what it leaves in cache and
\* configs.
LoadStoreEffect(cfg, c, sid, type, data) ==
  [configs |-> ConfigsSet(cfg, type, data),
   cache |-> CacheSet(c, CacheKey(type, sid), data)]

\* A catch branch that keeps a value loaded before.
LoadCatchKeepsLoaded(cfg, c, sid, type, fallback) ==
  [configs |-> IF type \in DOMAIN cfg THEN cfg ELSE ConfigsSet(cfg, type, fallback),
   cache |-> c]

\* A catch branch that also drops the cache entry of the type.
LoadCatchEvicts(cfg, c, sid, type, fallback) ==
  [configs |-> ConfigsSet(cfg, type, fallback),
   cache |-> CacheDelete(c, CacheKey(type, sid))]

\* The catch branch: what it leaves in cache and configs.
LoadCatchEffect(cfg, c, sid, type, fallback) ==
  [configs |-> ConfigsSet(cfg, type, fallback), cache |-> c]

\* A catch branch that throws again.
LoadCatchRethrows(type, fallback) ==
  Ret("load", type, "error", "rejected", fallback)

\* The catch branch: the fallback is returned.
LoadCatch(type, fallback) == Ret("load", type, "error", "resolved", fallback)

\* A continuation that stores the data and notifies nobody.
LoadStoreSilent(op, data, how) ==
  /\ LET eff == LoadStoreEffect(configs, cache, sessionId, op.type, data)
     IN /\ cache' = eff.cache
        /\ configs' = eff.configs
  /\ delivered' = <<>>
  /\ ret' = Ret("load", op.type, how, "resolved", data)
  /\ pending' = pending (-) SetToBag({op})

\* The continuation after a read that delivered an existing document, or
\* after createDefaultConfig returned: cache, store, notify, return.
LoadStore(op, data, how) ==
  /\ LET eff == LoadStoreEffect(configs, cache, sessionId, op.type, data)
     IN /\ cache' = eff.cache
        /\ configs' = eff.configs
  /\ delivered' = notifyCallbacks("configLoaded", op.type, data)
  /\ ret' = Ret("load", op.type, how, "resolved", data)
  /\ pending' = pending (-) SetToBag({op})

\* await db.collection("config").doc(type).get() delivered an existing
\* document.
LoadGetExists(op, data) ==
  /\ BagIn(op, pending) /\ op.op = "load" /\ op.pc = "get"
  /\ LoadStore(op, data, "fetched")
  /\ UNCHANGED <<sessionId, isInitialized, callbacks>>

\* The read delivered a missing document: the default is built and
\* createDefaultConfig awaited.
LoadGetMissing(op, r) ==
  /\ BagIn(op, pending) /\ op.op = "load" /\ op.pc = "get"
  /\ pending' = (pending (-) SetToBag({op}))
                  (+) SetToBag({Op("load", op.type, "create",
                                   getDefaultConfig(op.type, r), op.parent)})
  /\ ret' = NoRet
  /\ delivered' = <<>>
  /\ UNCHANGED <<configs, cache, sessionId, isInitialized, callbacks>>

\* The read (or snapshot.data()) threw.
LoadGetError(op, r) ==
  /\ BagIn(op, pending) /\ op.op = "load" /\ op.pc = "get"
  /\ LET fallback == getDefaultConfig(op.type, r)
         eff == LoadCatchEffect(configs, cache, sessionId, op.type, fallback)
     IN /\ configs' = eff.configs
        /\ cache' = eff.cache
        /\ ret' = LoadCatch(op.type, fallback)
  /\ pending' = pending (-) SetToBag({op})
  /\ delivered' = <<>>
  /\ UNCHANGED <<sessionId, isInitialized, callbacks>>

\* A createDefaultConfig that lets a failed write through to the catch branch
\* of loadConfigType.
CreateDoneThrows(op, ok) ==
  /\ BagIn(op, pending) /\ op.op = "load" /\ op.pc = "create"
  /\ IF ok
       THEN LoadStore(op, op.data, "created")
       ELSE /\ configs' = ConfigsSet(configs, op.type, op.data)
            /\ ret' = Ret("load", op.type, "createFailed", "resolved", op.data)
            /\ pending' = pending (-) SetToBag({op})
            /\ delivered' = <<>>
            /\ UNCHANGED cache
  /\ UNCHANGED <<sessionId, isInitialized, callbacks>>

\* createDefaultConfig returned; it catches a failed write itself.
CreateDone(op, ok) ==
  /\ BagIn(op, pending) /\ op.op = "load" /\ op.pc = "create"
  /\ LoadStore(op, op.data, IF ok THEN "created" ELSE "createFailed")
  /\ UNCHANGED <<sessionId, isInitialized, callbacks>>

(***************************************************************************)
(* updateConfig(type, data)                                                *)
(***************************************************************************)
\* The synchronous part: the remote update is issued.
updateConfig(type, data) ==
  /\ BagCardinality(pending) < MaxPending
  /\ pending' = pending (+) SetToBag({Op("update", type, "update", data, "")})
  /\ ret' = NoRet
  /\ delivered' = <<>>
  /\ UNCHANGED <<configs, cache, sessionId, isInitialized, callbacks>>

\* An update that clears the whole cache.
UpdateEffectClearsCache(cfg, c, sid, type, data) ==
  [configs |-> ConfigsSet(cfg, type, Spread(GetConfigIn(cfg, type), data)),
   cache |-> {}]

\* What a successful update leaves in configs and cache.
UpdateEffect(cfg, c, sid, type, data) ==
  [configs |-> ConfigsSet(cfg, type, Spread(GetConfigIn(cfg, type), data)),
   cache |-> CacheDelete(c, CacheKey(type, sid))]

\* await db.collection("config").doc(type).update(data) returned.
UpdateDone(op) ==
  /\ BagIn(op, pending) /\ op.op = "update"
  /\ LET eff == UpdateEffect(configs, cache, sessionId, op.type, op.data)
     IN /\ configs' = eff.configs
        /\ cache' = eff.cache
  /\ delivered' = notifyCallbacks("configUpdated", op.type, op.data)
  /\ ret' = Ret("update", op.type, "updated", "resolved", TRUE)
  /\ pending' = pending (-) SetToBag({op})
  /\ UNCHANGED <<sessionId, isInitialized, callbacks>>

\* A catch branch that drops the cache entry of the type.
UpdateFailedEvicts(op) ==
  /\ BagIn(op, pending) /\ op.op = "update"
  /\ ret' = Ret("update", op.type, "updateFailed", "resolved", FALSE)
  /\ pending' = pending (-) SetToBag({op})
  /\ delivered' = <<>>
  /\ cache' = CacheDelete(cache, CacheKey(op.type, sessionId))
  /\ UNCHANGED <<configs, sessionId, isInitialized, callbacks>>

\* The remote update threw: the catch branch returns false.
UpdateFailed(op) ==
  /\ BagIn(op, pending) /\ op.op = "update"
  /\ ret' = Ret("update", op.type, "updateFailed", "resolved", FALSE)
  /\ pending' = pending (-) SetToBag({op})
  /\ delivered' = <<>>
  /\ UNCHANGED <<configs, cache, sessionId, isInitialized, callbacks>>

(***************************************************************************)
(* clearCache(), onConfigUpdate(callback)                                  *)
(***************************************************************************)
clearCache ==
  /\ cache' = {}
  /\ ret' = NoRet
  /\ delivered' = <<>>
  /\ UNCHANGED <<configs, sessionId, isInitialized, callbacks, pending>>

onConfigUpdate(callback) ==
  /\ Len(callbacks) < MaxCallbacks
  /\ callbacks' = Append(callbacks, callback)
  /\ ret' = NoRet
  /\ delivered' = <<>>
  /\ UNCHANGED <<configs, cache, sessionId, isInitialized, pending>>

(***************************************************************************)
(* initialize(), loadCriticalConfigs(), loadAllConfigs()                   *)
(***************************************************************************)
\* The built-in critical config of loadCriticalConfigs.
CriticalDefaults ==
  [defaultPlaceholder |-> "Search packs, cities...",
   loadingMessage |-> "Loading your area...",
   errorMessage |-> "Unable to load your area",
   defaultRegion |-> "northeast"]

\* What the read of config/ui-critical may deliver.
CriticalSnapshots ==
  {[outcome |-> "exists", data |-> [defaultRegion |-> "midwest", title |-> "B"]],
   [outcome |-> "missing", data |-> EmptyMap],
   [outcome |-> "error", data |-> EmptyMap]}

\* A loadCriticalConfigs that takes the remote document in place of the
\* built-in critical config.
LoadCriticalReplaces(snapshot) ==
  IF snapshot.outcome = "exists" THEN snapshot.data ELSE CriticalDefaults

\* The critical config after the read: Object.assign(critical, snapshot.data())
\* when the document exists.
loadCriticalConfigs(snapshot) ==
  IF snapshot.outcome = "exists"
    THEN Spread(CriticalDefaults, snapshot.data)
    ELSE CriticalDefaults

\* A loadAllConfigs that awaits each load before it starts the next: only the
\* first read is in flight when it yields.
LoadAllSequential(cfg, c, sid, i) ==
  IF i > Len(configTypes)
    THEN [configs |-> cfg, issued |-> EmptyBag]
    ELSE [configs |-> cfg,
          issued |-> SetToBag({Op("load", configTypes[i], "get", EmptyMap,
                                  "loadAll")})]

\* configTypes.map(type => this.loadConfigType(type)) from the i-th type on:
\* the synchronous part of every load runs in turn, and every read a miss
\* issues is in flight before any continuation runs.
RECURSIVE LoadAllEffect(_, _, _, _)
LoadAllEffect(cfg, c, sid, i) ==
  IF i > Len(configTypes)
    THEN [configs |-> cfg, issued |-> EmptyBag]
    ELSE LET eff == LoadStartEffect(cfg, c, sid, configTypes[i])
             rest == LoadAllEffect(eff.configs, c, sid, i + 1)
         IN [configs |-> rest.configs,
             issued |->
               IF eff.hit
                 THEN rest.issued
                 ELSE rest.issued
                        (+) SetToBag({Op("load", configTypes[i], "get",
                                         EmptyMap, "loadAll")})]

\* The promise of Promise.allSettled(promises).
AllSettledOp == Op("loadAll", "", "allSettled", EmptyMap, "")

\* The synchronous part of initialize(): the read of config/ui-critical is
\* issued.  The specification follows the first initialize() of a page.
initialize ==
  /\ pending = EmptyBag
  /\ "critical" \notin DOMAIN configs
  /\ pending' = SetToBag({Op("initialize", "ui-critical", "critical", EmptyMap, "")})
  /\ ret' = NoRet
  /\ delivered' = <<>>
  /\ UNCHANGED <<configs, cache, sessionId, isInitialized, callbacks>>

\* An initialize() that awaits loadAllConfigs() before it goes on: when the
\* critical read has returned, the background loads are started and nothing
\* else happens yet.
CriticalDoneAwaitsAll(op, snapshot) ==
  /\ BagIn(op, pending) /\ op.op = "initialize"
  /\ LET critical == loadCriticalConfigs(snapshot)
         all == LoadAllEffect(ConfigsSet(configs, "critical", critical),
                              cache, sessionId, 1)
     IN /\ configs' = all.configs
        /\ pending' = ((pending (-) SetToBag({op})) (+) all.issued)
                        (+) SetToBag({AllSettledOp})
  /\ delivered' = <<>>
  /\ ret' = NoRet
  /\ UNCHANGED <<cache, sessionId, isInitialized, callbacks>>

\* The read of config/ui-critical returned: loadCriticalConfigs stores the
\* critical config, initialize() starts loadAllConfigs() without awaiting it,
\* sets isInitialized, notifies and returns true.
CriticalDone(op, snapshot) ==
  /\ BagIn(op, pending) /\ op.op = "initialize"
  /\ LET critical == loadCriticalConfigs(snapshot)
         all == LoadAllEffect(ConfigsSet(configs, "critical", critical),
                              cache, sessionId, 1)
     IN /\ configs' = all.configs
        /\ pending' = ((pending (-) SetToBag({op})) (+) all.issued)
                        (+) SetToBag({AllSettledOp})
  /\ isInitialized' = TRUE
  /\ delivered' = notifyCallbacks("initialized", "", EmptyMap)
  /\ ret' = Ret("initialize", "critical", "initialized", "resolved", EmptyMap)
  /\ UNCHANGED <<cache, sessionId, callbacks>>

\* await Promise.allSettled(promises) returns once every load that
\* loadAllConfigs started has settled.
LoadAllSettled(op) ==
  /\ BagIn(op, pending) /\ op = AllSettledOp
  /\ \A o \in BagToSet(pending) : o.parent # "loadAll"
  /\ pending' = pending (-) SetToBag({op})
  /\ ret' = Ret("loadAllConfigs", "", "settled", "resolved", EmptyMap)
  /\ delivered' = <<>>
  /\ UNCHANGED <<configs, cache, sessionId, isInitialized, callbacks>>

(***************************************************************************)
(* loadFallbackConfigs()                                                   *)
(***************************************************************************)
\* Object.keys(this.getDefaultConfig('')): the field names of the default of
\* the type ''.
FallbackTypes(r) == DOMAIN getDefaultConfig("", r)

loadFallbackConfigs(r) ==
  /\ configs' =
       [t \in DOMAIN configs \cup FallbackTypes(r) |->
         IF t \in FallbackTypes(r) THEN getDefaultConfig(t, r) ELSE configs[t]]
  /\ isInitialized' = TRUE
  /\ delivered' = notifyCallbacks("fallbackLoaded", "", EmptyMap)
  /\ ret' = Ret("loadFallbackConfigs", "", "sync", "returned", EmptyMap)
  /\ UNCHANGED <<cache, sessionId, callbacks, pending>>

(***************************************************************************)
(* The clock.  Time is kept relative: an entry carries its age             *)
(* Date.now() - timestamp, which loadConfigType compares with cacheTimeout *)
(* and nothing else reads, so ages are followed up to cacheTimeout.        *)
(***************************************************************************)
Older(age) ==
  IF age + HalfTimeout < cacheTimeout THEN age + HalfTimeout ELSE cacheTimeout

Tick ==
  /\ cache' = {[e EXCEPT !.age = Older(e.age)] : e \in cache}
  /\ ret' = NoRet
  /\ delivered' = <<>>
  /\ UNCHANGED <<configs, sessionId, isInitialized, callbacks, pending>>

Next ==
  \/ \E type \in OpTypes : loadConfigType(type) /\ UNCHANGED aux
  \/ \E op \in BagToSet(pending), data \in RemoteDocs :
       LoadGetExists(op, data) /\ UNCHANGED aux
  \/ \E op \in BagToSet(pending), r \in PublicIds :
       LoadGetMissing(op, r) /\ UNCHANGED aux
  \/ \E op \in BagToSet(pending), r \in PublicIds :
       LoadGetError(op, r) /\ UNCHANGED aux
  \/ \E op \in BagToSet(pending), ok \in BOOLEAN :
       CreateDone(op, ok) /\ UNCHANGED aux
  \/ \E type \in OpTypes, data \in UpdateData :
       updateConfig(type, data) /\ UNCHANGED aux
  \/ \E op \in BagToSet(pending) : UpdateDone(op) /\ UNCHANGED aux
  \/ \E op \in BagToSet(pending) : UpdateFailed(op) /\ UNCHANGED aux
  \/ clearCache /\ UNCHANGED aux
  \/ \E callback \in Callbacks : onConfigUpdate(callback) /\ UNCHANGED aux
  \/ Tick /\ UNCHANGED aux

Spec == Init /\ [][Next]_vars

\* The start-up of a page: initialize() and loadAllConfigs() over the six
\* config types.  The generated ids play no part in it: the start-up is
\* followed for one outcome of the id generator.
BootIds == {CHOOSE r \in PublicIds : TRUE}

NextBoot ==
  \/ initialize /\ UNCHANGED aux
  \/ \E op \in BagToSet(pending), snapshot \in CriticalSnapshots :
       CriticalDone(op, snapshot) /\ UNCHANGED aux
  \/ \E op \in BagToSet(pending) : LoadAllSettled(op) /\ UNCHANGED aux
  \/ \E op \in BagToSet(pending), data \in RemoteDocs :
       LoadGetExists(op, data) /\ UNCHANGED aux
  \/ \E op \in BagToSet(pending), r \in BootIds :
       LoadGetMissing(op, r) /\ UNCHANGED aux
  \/ \E op \in BagToSet(pending), r \in BootIds :
       LoadGetError(op, r) /\ UNCHANGED aux
  \/ \E op \in BagToSet(pending), ok \in BOOLEAN :
       CreateDone(op, ok) /\ UNCHANGED aux
  \/ \E r \in BootIds : loadFallbackConfigs(r) /\ UNCHANGED aux
  \/ \E callback \in Callbacks : onConfigUpdate(callback) /\ UNCHANGED aux

SpecBoot == Init /\ [][NextBoot]_vars

(***************************************************************************)
(* Batches of concurrent operations.  The history variable race follows    *)
(* one batch at a time: the mappings when its first operation started      *)
(* (base), the operations that have completed with the outcome the remote  *)
(* store gave each of them (hist), and whether a completion has run        *)
(* (closed).  Every operation of a batch starts before any of them         *)
(* completes, so all of them are pending together; a load served from the  *)
(* cache is never pending and runs between batches.                        *)
(***************************************************************************)
RaceOpen == pending = EmptyBag \/ ~race.closed

RaceBegin ==
  IF pending = EmptyBag
    THEN [base |-> [configs |-> configs, cache |-> cache], hist |-> <<>>,
          closed |-> FALSE]
    ELSE race

RaceDone(op, outcome, data) ==
  [race EXCEPT !.closed = TRUE,
               !.hist = Append(@, [op |-> op.op, type |-> op.type,
                                   outcome |-> outcome, data |-> data])]

RaceLoad(type) ==
  /\ loadConfigType(type)
  /\ IF LoadStartEffect(configs, cache, sessionId, type).hit
       THEN pending = EmptyBag /\ race' = NoRace
       ELSE RaceOpen /\ race' = RaceBegin

RaceUpdate(type, data) ==
  /\ RaceOpen
  /\ updateConfig(type, data)
  /\ race' = RaceBegin

RaceGetExists(op, data) ==
  LoadGetExists(op, data) /\ race' = RaceDone(op, "exists", data)

RaceGetMissing(op, r) ==
  LoadGetMissing(op, r) /\ race' = [race EXCEPT !.closed = TRUE]

RaceGetError(op, r) ==
  LoadGetError(op, r)
    /\ race' = RaceDone(op, "error", getDefaultConfig(op.type, r))

RaceCreateDone(op, ok) ==
  CreateDone(op, ok)
    /\ race' = RaceDone(op, IF ok THEN "created" ELSE "createFailed", op.data)

RaceUpdateDone(op) ==
  UpdateDone(op) /\ race' = RaceDone(op, "updated", op.data)

RaceUpdateFailed(op) ==
  UpdateFailed(op) /\ race' = RaceDone(op, "updateFailed", op.data)

NextRace ==
  \/ \E type \in OpTypes : RaceLoad(type) /\ UNCHANGED <<locVars, authVars>>
  \/ \E type \in OpTypes, data \in UpdateData :
       RaceUpdate(type, data) /\ UNCHANGED <<locVars, authVars>>
  \/ \E op \in BagToSet(pending), data \in RemoteDocs :
       RaceGetExists(op, data) /\ UNCHANGED <<locVars, authVars>>
  \/ \E op \in BagToSet(pending), r \in PublicIds :
       RaceGetMissing(op, r) /\ UNCHANGED <<locVars, authVars>>
  \/ \E op \in BagToSet(pending), r \in PublicIds :
       RaceGetError(op, r) /\ UNCHANGED <<locVars, authVars>>
  \/ \E op \in BagToSet(pending), ok \in BOOLEAN :
       RaceCreateDone(op, ok) /\ UNCHANGED <<locVars, authVars>>
  \/ \E op \in BagToSet(pending) : RaceUpdateDone(op) /\ UNCHANGED <<locVars, authVars>>
  \/ \E op \in BagToSet(pending) : RaceUpdateFailed(op) /\ UNCHANGED <<locVars, authVars>>

SpecRace == Init /\ [][NextRace]_vars

(***************************************************************************)
(* Properties.                                                             *)
(***************************************************************************)
FieldNames ==
  {"items", "title", "searchPlaceholders", "locationMessages",
   "personalizedPlaceholders", "errorMessages", "defaultRegion",
   "maxSearchRadius", "cacheTimeout", "defaultPlaceholder", "loadingMessage",
   "errorMessage"}

IsMapping(v) == DOMAIN v \subseteq FieldNames

\* v is what getDefaultConfig(type) returns for some outcome of the id
\* generator.
IsDefaultConfig(type, v) == \E r \in PublicIds : v = getDefaultConfig(type, r)

LoadSettled == ret.op = "load" /\ ret.settled # "pending"

EntryOf(type) == CacheGet(cache, CacheKey(type, sessionId))

\* C1: the promise of loadConfigType never rejects: whatever the remote read
\* and the write of the default delivered, it resolves to a mapping, and
\* after a failed read to a built-in default of the type.
C1_LoadNeverRejects ==
  LoadSettled =>
    /\ ret.settled = "resolved"
    /\ IsMapping(ret.value)
    /\ (ret.how = "error" => IsDefaultConfig(ret.type, ret.value))

C1_Witness == LoadSettled /\ ret.how = "error" /\ ret.type = "cities"

\* C2: as long as the cache entry that a fetch wrote is younger than
\* cacheTimeout, getConfig of its type returns the fetched value, whatever
\* loads completed since.
C2_FetchedValueStays ==
  \A type \in AllTypes :
    \A e \in EntryOf(type) :
      IsFresh(e) /\ e.data \in RemoteDocs => getConfig(type) = e.data

\* C3: right after a failed load, getConfig of the type is a built-in default
\* of the type, also when a value had been fetched before.
C3_FailureGivesDefault ==
  LoadSettled /\ ret.how = "error" =>
    IsDefaultConfig(ret.type, getConfig(ret.type))

C3_Witness ==
  /\ LoadSettled /\ ret.how = "error"
  /\ \E e \in EntryOf(ret.type) : e.data \in RemoteDocs

\* C4: the cache holds at most one entry per key; a load serves the cache
\* only from an entry of its key younger than cacheTimeout, and issues a
\* remote read when there is none.
C4_HitOnlyWhenFresh ==
  /\ \A e1, e2 \in cache : e1.key = e2.key => e1 = e2
  /\ ret.op = "load" /\ ret.how = "hit" =>
       \E e \in EntryOf(ret.type) : e.age < cacheTimeout /\ ret.value = e.data
  /\ ret.op = "load" /\ ret.how = "issued" =>
       /\ \A e \in EntryOf(ret.type) : e.age >= cacheTimeout
       /\ BagIn(Op("load", ret.type, "get", EmptyMap, ""), pending)

C4_Witness ==
  /\ ret.op = "load" /\ ret.how = "issued"
  /\ \E e \in EntryOf(ret.type) : e.age = cacheTimeout

\* C10: a load that found the document missing resolves to a built-in
\* default of the type, which is stored in configs and cached, whether the
\* write of the default succeeded or failed; the write it waits for carries
\* a built-in default.
C10_MissingGivesDefault ==
  /\ LoadSettled /\ ret.how \in {"created", "createFailed"} =>
       /\ ret.settled = "resolved"
       /\ IsDefaultConfig(ret.type, ret.value)
       /\ getConfig(ret.type) = ret.value
       /\ \E e \in EntryOf(ret.type) : e.data = ret.value /\ e.age = 0
  /\ \A op \in BagToSet(pending) :
       op.pc = "create" => IsDefaultConfig(op.type, op.data)

C10_Witness == LoadSettled /\ ret.how = "createFailed" /\ ret.type = "cities"

\* The entries of a Map one clock step later.
Aged(entries) == {[e EXCEPT !.age = Older(e.age)] : e \in entries}

\* C6: getConfig(type) is the empty mapping until a load or update of the
\* type completes, and from then on the value that the most recently
\* completed load of the type returned or that the most recently completed
\* successful update of the type merged; no other step changes it
\* (clearCache, a load or update of another type, a registration);
\* initialize() stores the critical config it loaded and leaves the six
\* background types as they are.
C6_GetReturnsLastStored ==
  /\ \A type \in AllTypes : getConfig(type) = EmptyMap
  /\ [][\A type \in AllTypes :
          IF ret'.op = "load" /\ ret'.settled = "resolved" /\ ret'.type = type
            THEN getConfig(type)' = ret'.value
            ELSE IF ret'.op = "update" /\ ret'.how = "updated" /\ ret'.type = type
                   THEN \E op \in BagToSet(pending) :
                          /\ op.op = "update" /\ op.type = type
                          /\ getConfig(type)' = Spread(getConfig(type), op.data)
                   ELSE IF ret'.op = "initialize" /\ type = "critical"
                          THEN \E snapshot \in CriticalSnapshots :
                                 getConfig(type)' = loadCriticalConfigs(snapshot)
                          ELSE getConfig(type)' = getConfig(type)]_vars

C6_Witness ==
  /\ cache = {}
  /\ getConfig("cities") \in RemoteDocs
  /\ getConfig("auth-settings") = EmptyMap
  /\ "auth-settings" \notin DOMAIN configs

\* Every cache key ends with the session identifier, and a cache hit was
\* served from an entry under the key of the own session, which is the key
\* of no other session.
KeysOfSession ==
  /\ \A e \in cache :
       /\ Len(e.key) > Len(sessionId)
       /\ SubSeq(e.key, Len(e.key) - Len(sessionId) + 1, Len(e.key)) = sessionId
  /\ ret.op = "load" /\ ret.how = "hit" =>
       \E e \in cache :
         /\ e.key = CacheKey(ret.type, sessionId)
         /\ e.data = ret.value
         /\ \A sid \in SessionIds \ {sessionId}, type \in AllTypes \cup ProbeTypes :
              e.key # CacheKey(type, sid)

\* The key of a type in one session is the key of no type in another session
\* and of no other type in the same.
KeysDistinct ==
  \A s1, s2 \in SessionIds, t1, t2 \in AllTypes \cup ProbeTypes :
    CacheKey(t1, s1) = CacheKey(t2, s2) => s1 = s2 /\ t1 = t2

\* C7: the session identifier never changes, every cache key written or read
\* ends with it, and the cache keys of two sessions are never equal, so that
\* no entry written in one session is a hit in another.
C7_SessionScopedKeys ==
  [][sessionId' = sessionId /\ KeysOfSession' /\ KeysDistinct]_vars

C7_Witness ==
  /\ ret.op = "load" /\ ret.how = "hit"
  /\ \E e \in EntryOf(ret.type) : e.age > 0

\* C9: the cache entry of a type is removed only by clearCache or by a
\* successful updateConfig of the type; otherwise a step leaves it as it is,
\* ages it, or (a load of the type that read the remote store) replaces it by
\* the newly loaded value.  A failed load, a load or update of another type
\* and a registration leave it alone.
C9_EvictedOnlyExplicitly ==
  [][\A type \in AllTypes :
       LET before == EntryOf(type)
           after == CacheGet(cache', CacheKey(type, sessionId))
       IN before # {} =>
            \/ after = before
            \/ after = Aged(before) /\ Tick
            \/ after = {} /\ clearCache
            \/ /\ after = {}
               /\ \E op \in BagToSet(pending) : op.type = type /\ UpdateDone(op)
            \/ /\ ret'.op = "load" /\ ret'.type = type
               /\ ret'.how \in {"fetched", "created", "createFailed"}
               /\ after = {[key |-> CacheKey(type, sessionId),
                            data |-> ret'.value, age |-> 0]}]_vars

C9_Witness ==
  /\ LoadSettled /\ ret.how = "error"
  /\ \E e \in EntryOf(ret.type) : IsFresh(e)

\* The loads that loadAllConfigs started and that have not settled.
Children == {op \in BagToSet(pending) : op.parent = "loadAll"}

\* C8: when initialize() has started loadAllConfigs, the reads of all six
\* types are in flight before any of them has completed; a load in flight
\* can complete and store its value whatever has become of the others; and
\* Promise.allSettled resolves only when none of them is in flight.
C8_LoadsConcurrent ==
  /\ ret.op = "initialize" =>
       /\ \A type \in ConfigTypeSet :
            BagIn(Op("load", type, "get", EmptyMap, "loadAll"), pending)
       /\ BagIn(AllSettledOp, pending)
  /\ \A op \in Children :
       /\ op.pc = "get" =>
            /\ \A data \in RemoteDocs : ENABLED LoadGetExists(op, data)
            /\ \A r \in PublicIds : ENABLED LoadGetError(op, r)
       /\ op.pc = "create" => \A ok \in BOOLEAN : ENABLED CreateDone(op, ok)
  /\ LoadSettled /\ ret.how = "fetched" => getConfig(ret.type) = ret.value
  /\ ret.op = "loadAllConfigs" => Children = {}

\* One load has just failed, another is still waiting and a third has stored
\* the document it read.
C8_Witness ==
  /\ LoadSettled /\ ret.how = "error" /\ ret.type = "cities"
  /\ \E op \in Children : op.type = "ui-strings" /\ op.pc = "get"
  /\ getConfig("region-settings") \in RemoteDocs
  /\ BagIn(AllSettledOp, pending)

\* One operation of a batch run from start to completion on the mappings s,
\* the remote store answering as it answered the operation in the batch: a
\* load that finds a fresh entry is served from the cache.
RunAlone(s, rec) ==
  IF rec.op = "update"
    THEN IF rec.outcome = "updated"
           THEN UpdateEffect(s.configs, s.cache, sessionId, rec.type, rec.data)
           ELSE s
    ELSE LET start == LoadStartEffect(s.configs, s.cache, sessionId, rec.type)
         IN IF start.hit
              THEN [configs |-> start.configs, cache |-> s.cache]
              ELSE IF rec.outcome = "error"
                     THEN LoadCatchEffect(s.configs, s.cache, sessionId,
                                          rec.type, rec.data)
                     ELSE LoadStoreEffect(s.configs, s.cache, sessionId,
                                          rec.type, rec.data)

\* The operations hist[order[1]], hist[order[2]], ... run one after the other.
RECURSIVE SeqRun(_, _, _)
SeqRun(s, hist, order) ==
  IF order = <<>>
    THEN s
    ELSE SeqRun(RunAlone(s, hist[Head(order)]), hist, Tail(order))

Orders(n) ==
  {order \in [1..n -> 1..n] : \A i, j \in 1..n : order[i] = order[j] => i = j}

\* C5: when every operation of a batch of concurrently pending loadConfigType
\* and updateConfig operations has completed, configs and cache are what some
\* sequential execution of the same operations leaves.
C5_Serializable ==
  pending = EmptyBag /\ race.closed =>
    \E order \in Orders(Len(race.hist)) :
      SeqRun(race.base, race.hist, order)
        = [configs |-> configs, cache |-> cache]

\* The load that has just settled read the remote store and the read returned
\* (a document, or the report that there is none).
ReadSucceeded ==
  LoadSettled /\ ret.how \in {"fetched", "created", "createFailed"}

\* C11 (as amended): a step writes a cache entry exactly when it completes a
\* load whose remote read succeeded; the entry holds the data the load
\* returned and the time of the completion.  A load whose read failed leaves
\* the cache unchanged; the next load of the type then reads the remote store
\* again unless the cache holds a fresh entry that another load of the type
\* wrote.
C11_EntryWrittenOnSuccess ==
  [][/\ \A type \in AllTypes :
          LET before == EntryOf(type)
              after == CacheGet(cache', CacheKey(type, sessionId))
              written == [key |-> CacheKey(type, sessionId),
                          data |-> ret'.value, age |-> 0]
          IN IF ReadSucceeded' /\ ret'.type = type
               THEN after = {written}
               ELSE after \in {before, Aged(before), {}}
      /\ LoadSettled' /\ ret'.how = "error" =>
           /\ cache' = cache
           /\ LoadStartEffect(configs', cache', sessionId', ret'.type).hit
                <=> \E e \in EntryOf(ret'.type) : IsFresh(e)]_vars

\* A failed load has left in place the entry that an earlier load of the type
\* wrote a clock step ago.
C11_Witness ==
  /\ LoadSettled /\ ret.how = "error"
  /\ \E e \in EntryOf(ret.type) : e.age = HalfTimeout /\ e.data \in RemoteDocs

\* C11 as stated: after a load whose remote read failed, the next load of
\* the type reads the remote store again.
C11_FailedLoadReadsAgain ==
  LoadSettled /\ ret.how = "error" =>
    ~LoadStartEffect(configs, cache, sessionId, ret.type).hit

CriticalKeys ==
  {"defaultPlaceholder", "loadingMessage", "errorMessage", "defaultRegion"}

\* C12: whatever the read of config/ui-critical delivered, initialize()
\* resolves once it has settled, with isInitialized set and a critical config
\* that has the four keys defaultPlaceholder, loadingMessage, errorMessage
\* and defaultRegion; the critical config keeps them afterwards.
C12_InitializeNeverFatal ==
  /\ ret.op = "initialize" =>
       /\ ret.settled = "resolved" /\ ret.how = "initialized"
       /\ isInitialized
       /\ CriticalKeys \subseteq DOMAIN getConfig("critical")
  /\ "critical" \in DOMAIN configs =>
       /\ isInitialized
       /\ CriticalKeys \subseteq DOMAIN getConfig("critical")
       /\ \A op \in BagToSet(pending) : op.op # "initialize"

\* initialize() has just resolved after a read that delivered a document
\* overriding one of the four keys and adding another.
C12_Witness ==
  /\ ret.op = "initialize"
  /\ getConfig("critical").defaultRegion = "midwest"
  /\ "title" \in DOMAIN getConfig("critical")

\* C13: a failed remote write of updateConfig is not propagated: the call
\* resolves to false, configs and cache (the entry of the type included) are
\* as before, and no callback is invoked.
C13_FailedUpdateChangesNothing ==
  [][ret'.op = "update" /\ ret'.how = "updateFailed" =>
       /\ ret'.settled = "resolved" /\ ret'.value = FALSE
       /\ configs' = configs
       /\ cache' = cache
       /\ delivered' = <<>>]_vars

\* An update has just failed while a callback is registered and the cache
\* holds a fresh entry of the type.
C13_Witness ==
  /\ ret.op = "update" /\ ret.how = "updateFailed"
  /\ callbacks # <<>>
  /\ \E e \in EntryOf(ret.type) : IsFresh(e)

\* No item of the type's config has the key.
NoItemWithKey(type, key) ==
  LET config == getConfig(type)
  IN "items" \in DOMAIN config =>
       \A i \in 1..Len(config.items) : config.items[i].key # key

\* C14: getConfigItem(type, key) returns null whenever the type's config has
\* no item with the key, be it that the config has no items list or that the
\* list has no such item.
C14_MissingKeyGivesNull ==
  \A type \in AllTypes, key \in ItemKeys :
    NoItemWithKey(type, key) => getConfigItem(type, key) = Null

\* C15: the city selection is persisted in one storage item and round-trips:
\* once a setCurrentCity of the manager has succeeded, the stored value is
\* currentCity.key, no other item is written, and a LocationManager
\* constructed over the storage starts with the same current city.
C15_SelectionRoundTrips ==
  persisted =>
    /\ DOMAIN localStorage = {StorageKey}
    /\ localStorage[StorageKey] = currentCity.key
    /\ LocationInit(localStorage) = currentCity

\* The load that has just settled substituted a built-in default: its read
\* failed or found the document missing.
Defaulted == LoadSettled /\ ret.how \in {"error", "created", "createFailed"}

\* C16: the built-in default of a type is static: when two loads of a type
\* settle one after the other, each with a default substituted, getConfig of
\* the type is the same mapping after both, ids of the items included.
C16_DefaultIsStatic ==
  [][Defaulted /\ Defaulted' /\ ret'.type = ret.type =>
       getConfig(ret.type)' = getConfig(ret.type)]_vars

\* C17: initialize() resolves in the step in which the read of
\* config/ui-critical has settled, while every background load it started is
\* still waiting for its read; every callback gets 'initialized' in that
\* step, and 'configLoaded' is delivered only after it.
C17_InitializedBeforeBackground ==
  /\ ret.op = "initialize" =>
       /\ ret.settled = "resolved"
       /\ delivered = [i \in 1..Len(callbacks) |->
                        [callback |-> callbacks[i], event |-> "initialized",
                         type |-> "", data |-> EmptyMap]]
       /\ \A type \in ConfigTypeSet :
            \E op \in Children : op.type = type /\ op.pc = "get"
  /\ \A i \in DOMAIN delivered :
       delivered[i].event = "configLoaded" =>
         /\ isInitialized
         /\ "critical" \in DOMAIN configs
         /\ \A op \in BagToSet(pending) : op.op # "initialize"

\* initialize() has just resolved with a callback registered: the callback
\* got 'initialized' and the six background reads are in flight.
C17_Witness ==
  /\ ret.op = "initialize"
  /\ Len(delivered) = 1 /\ delivered[1].event = "initialized"
  /\ Cardinality(Children) = Len(configTypes)

\* C18: when loadFallbackConfigs() has returned, getConfig(type) is the
\* built-in default of each of the six built-in types, isInitialized is set
\* and every callback has got 'fallbackLoaded' once.
C18_FallbackLoadsDefaults ==
  ret.op = "loadFallbackConfigs" =>
    /\ \A type \in ConfigTypeSet : IsDefaultConfig(type, getConfig(type))
    /\ isInitialized
    /\ delivered = [i \in 1..Len(callbacks) |->
                     [callback |-> callbacks[i], event |-> "fallbackLoaded",
                      type |-> "", data |-> EmptyMap]]

\* C19: a step that completes a successful updateConfig(type, data) leaves
\* getConfig(type) as the previous config of the type overridden key by key
\* with data, removes the cache entry of the type so that the next load of
\* the type reads the remote store, invokes every callback once with
\* 'configUpdated' and {type, data}, and leaves the configs and cache
\* entries of all other types as they were.
C19_UpdateFrame ==
  [][ret'.op = "update" /\ ret'.how = "updated" =>
       \E op \in BagToSet(pending) :
         /\ op.op = "update" /\ op.type = ret'.type
         /\ LET old == getConfig(op.type)
                new == getConfig(op.type)'
            IN /\ DOMAIN new = DOMAIN old \cup DOMAIN op.data
               /\ \A k \in DOMAIN new :
                    new[k] = IF k \in DOMAIN op.data THEN op.data[k] ELSE old[k]
         /\ CacheGet(cache', CacheKey(op.type, sessionId)) = {}
         /\ ~LoadStartEffect(configs', cache', sessionId', op.type).hit
         /\ delivered' = [i \in 1..Len(callbacks) |->
                           [callback |-> callbacks[i], event |-> "configUpdated",
                            type |-> op.type, data |-> op.data]]
         /\ \A other \in AllTypes \ {op.type} :
              /\ other \in DOMAIN configs' <=> other \in DOMAIN configs
              /\ getConfig(other)' = getConfig(other)
              /\ CacheGet(cache', CacheKey(other, sessionId)) = EntryOf(other)]_vars

\* An update of a loaded type has just succeeded while a callback is
\* registered and the cache holds an entry of another type.
C19_Witness ==
  /\ ret.op = "update" /\ ret.how = "updated"
  /\ {"items", "title"} \subseteq DOMAIN getConfig(ret.type)
  /\ callbacks # <<>>
  /\ \E other \in AllTypes \ {ret.type} : EntryOf(other) # {}

\* C20: every callback is invoked once with 'configLoaded', the type and the
\* data that getConfig(type) returns, by the step that completes a load whose
\* remote read succeeded; a cache hit, a load whose read failed and the start
\* of a load invoke none, and nothing else delivers 'configLoaded'.
C20_ConfigLoadedOncePerRead ==
  /\ ReadSucceeded =>
       /\ getConfig(ret.type) = ret.value
       /\ delivered = [i \in 1..Len(callbacks) |->
                        [callback |-> callbacks[i], event |-> "configLoaded",
                         type |-> ret.type, data |-> getConfig(ret.type)]]
  /\ ret.op = "load" /\ ret.how \in {"hit", "error", "issued"} =>
       delivered = <<>>
  /\ \A i \in DOMAIN delivered :
       delivered[i].event = "configLoaded" => ReadSucceeded

\* A callback has just got 'configLoaded' for a document that was read.
C20_Witness ==
  /\ ReadSucceeded /\ ret.how = "fetched"
  /\ Len(delivered) = 1 /\ delivered[1].event = "configLoaded"

\* The loads of a type waiting at the await pc, counted with multiplicity.
LoadsAt(p, type, pc) ==
  LET ops == {op \in BagToSet(p) :
                op.op = "load" /\ op.type = type /\ op.pc = pc}
  IN BagCardinality([op \in ops |-> CopiesIn(op, p)])

\* C21 (as amended): reads are not shared between calls.  Every
\* loadConfigType(type) that finds no fresh cache entry issues a remote read
\* of its own, whatever reads are in flight, and a call that finds one issues
\* none; each read that finds the document missing is followed by one write
\* of the default, so the writes of a type in flight are at most as many as
\* the calls.
C21_ReadPerMissingCall ==
  [][\A type \in AllTypes :
       /\ ret'.op = "load" /\ ret'.how = "issued" /\ ret'.type = type =>
            /\ CacheHit(cache, CacheKey(type, sessionId)) = {}
            /\ LoadsAt(pending', type, "get") = LoadsAt(pending, type, "get") + 1
       /\ ret'.op = "load" /\ ret'.how = "hit" /\ ret'.type = type =>
            /\ CacheHit(cache, CacheKey(type, sessionId)) # {}
            /\ pending' = pending
       /\ LoadsAt(pending', type, "create") > LoadsAt(pending, type, "create") =>
            /\ LoadsAt(pending', type, "create")
                 = LoadsAt(pending, type, "create") + 1
            /\ LoadsAt(pending', type, "get")
                 = LoadsAt(pending, type, "get") - 1]_vars

\* A second call has just issued its read while the read of an earlier call
\* of the type is in flight.
C21_Witness ==
  /\ ret.op = "load" /\ ret.how = "issued"
  /\ LoadsAt(pending, ret.type, "get") = 2

\* C21 as stated: at most one remote read of a type is in flight at any
\* time, and at most one write of the default of a type.
C21_OneReadInFlight ==
  \A type \in AllTypes :
    /\ LoadsAt(pending, type, "get") <= 1
    /\ LoadsAt(pending, type, "create") <= 1

\* The entries of the city list.
CityList == {cities[i] : i \in 1..Len(cities)}

InCityList(key) == \E city \in CityList : city.key = key

\* The manager has just been constructed.
JustConstructed == locRet = NoLocRet

\* C22: the current city of a constructed LocationManager is never null and
\* always an entry of the city list; a manager constructed over a storage
\* that holds no saved key, or a key that is not in the list, starts with
\* Boston.
C22_CurrentCityInList ==
  /\ currentCity \in CityList
  /\ JustConstructed =>
       IF StorageKey \in DOMAIN localStorage
            /\ InCityList(localStorage[StorageKey])
         THEN currentCity.key = localStorage[StorageKey]
         ELSE currentCity.key = "boston" /\ currentCity.name = "Boston"

\* A manager has been constructed over a storage whose saved key is in no
\* entry of the list.
C22_Witness ==
  /\ JustConstructed
  /\ StorageKey \in DOMAIN localStorage
  /\ localStorage[StorageKey] = "atlantis"

\* C23: setCurrentCity with a key that is not in the city list returns false
\* and changes nothing: current city, stored value and listeners stay and no
\* listener is called.
C23_InvalidKeyChangesNothing ==
  [][locRet'.op = "setCurrentCity" /\ ~InCityList(locRet'.key) =>
       /\ locRet'.result = "false"
       /\ currentCity' = currentCity
       /\ localStorage' = localStorage
       /\ listeners' = listeners
       /\ notified' = <<>>]_vars

\* A call with an unknown key has just returned while a city other than the
\* default is selected and stored and a listener is registered.
C23_Witness ==
  /\ locRet.op = "setCurrentCity" /\ locRet.key = "atlantis"
  /\ currentCity.key = "new-haven"
  /\ StorageKey \in DOMAIN localStorage
  /\ listeners # <<>>

\* C24: a successful setCurrentCity(key) calls every listener registered at
\* the moment of the call exactly once, in registration order, with the new
\* city, after currentCity and the stored value have been updated, whatever
\* the listeners do in their calls.
C24_EveryListenerNotifiedOnce ==
  [][locRet'.op = "setCurrentCity" /\ locRet'.result = "true" =>
       /\ Len(notified') = Len(listeners)
       /\ \A i \in 1..Len(listeners) :
            i \in DOMAIN notified' =>
              /\ notified'[i].listener = listeners[i]
              /\ notified'[i].city = currentCity'
              /\ notified'[i].stored = currentCity'.key]_vars

\* C25: when removeCityChangeListener(cb) has returned, no later change of
\* city calls cb, however often cb had been registered; and removing a
\* callback that is not registered leaves the listeners as they are.
C25_RemovedNeverNotified ==
  [][/\ locRet.op = "removeCityChangeListener"
          /\ locRet'.op = "setCurrentCity" =>
            \A i \in DOMAIN notified' : notified'[i].listener # locRet.key
     /\ locRet'.op = "removeCityChangeListener"
          /\ (\A i \in 1..Len(listeners) : listeners[i] # locRet'.key) =>
            listeners' = listeners]_vars

\* No handler of an auth-state change is waiting at an await.
NoHandlerInProgress == authPending = EmptyBag

\* C26: whenever no auth-state handler is in progress, a null user goes
\* with a null profile and without admin rights, in every interleaving of
\* auth-state changes, a sign-out during the profile load of a sign-in
\* included.
C26_SignedOutHasNoProfile ==
  NoHandlerInProgress /\ user = Null =>
    userProfile = Null /\ isAdmin = FALSE

\* C27: auth listeners get 'authenticated' only with a user that is not
\* null, and once every handler has finished, the last event they got is
\* the one of the state the backend reported last.
C27_EventsFollowBackend ==
  /\ \A i \in DOMAIN authNotified :
       authNotified[i].event = "authenticated" =>
         authNotified[i].data.user # Null
  /\ NoHandlerInProgress /\ lastEvent.reached > 0 =>
       /\ lastEvent.user = backend
       /\ lastEvent.event =
            IF backend = Null THEN "unauthenticated" ELSE "authenticated"

====
